---- MODULE Spec2Model ----
(***************************************************************************)
(* Model of embassy-nrf/src/buffered_uarte.rs: the buffered UARTE driver.  *)
(*                                                                         *)
(* The driver State (two ring buffers, RxState, TxState, two waker         *)
(* registrations) is shared between the task context (poll_fill_buf,       *)
(* consume, poll_write, each one critical section of PeripheralMutex::with)*)
(* and the interrupt context (on_interrupt).  on_interrupt is modelled     *)
(* loop iteration by loop iteration (pc); the UARTE peripheral runs        *)
(* concurrently with both contexts.                                        *)
(*                                                                         *)
(* RingBuffer, PeripheralMutex and WakerRegistration live in other files   *)
(* of the crate; they are modelled from their documented contract.         *)
(***************************************************************************)
EXTENDS Integers, Sequences, FiniteSets

(* ------------------------------ bounds -------------------------------- *)
\* length of the rx and of the tx buffer handed to BufferedUarte::new
BufLen == 3
\* number of bytes the writer task offers in total
MaxBytes == 5
\* longest slice passed to one poll_write call
MaxWrite == 3
\* bytes the serial line (shift registers, loop-back wire) can hold
MaxLine == 2

VARIABLES
    rx,          \* State.rx: RingBuffer
    rx_state,    \* State.rx_state: RxState
    rx_waker,    \* State.rx_waker: TRUE iff a waker is registered
    tx,          \* State.tx: RingBuffer
    tx_state,    \* State.tx_state: TxState
    tx_waker,    \* State.tx_waker: TRUE iff a waker is registered
    uarte,       \* State.inner: the register block the driver reads and writes
    hw,          \* the peripheral's own state (EasyDMA engines)
    line,        \* bytes on their way to the receiver
    src,         \* bytes an external sender has still to put on the line
    irq_pend,    \* NVIC pending bit set by irq.pend()
    pc,          \* position of the interrupt context: "task", "rx", "tx"
    fatal,       \* TRUE once panic!("unexpected endrx") was reached
    drop_state,  \* "alive", "halted" (panic=abort) or "released" (unwound)
    written,     \* history: the bytes poll_write accepted, in order
    readout,     \* history: the bytes released to the reader by consume
    view,        \* the slice the last poll_fill_buf returned
    rx_woken,    \* the reader's waker was woken since its last poll
    tx_woken,    \* the writer's waker was woken since its last poll
    rx_open,     \* history: startrx commands minus endrx events handled
    tx_open,     \* history: starttx commands minus endtx events handled
    rx_used,     \* history: bytes committed to rx minus bytes released
    tx_used,     \* history: bytes committed to tx minus bytes released
    early,       \* history: the last early stop: how far it got ("stopping",
                 \* "committed", "returned"), the transfer's RXD.PTR and
                 \* RXD.MAXCNT, the bytes it had received when stopped
    cs,          \* "in" while the task context is inside PeripheralMutex::with
    wr,          \* history: the length the last poll_write was asked for,
                 \* what it returned (-1 for Poll::Pending) and the free
                 \* bytes of the transmit buffer when it was called
    rx_stops,    \* history: stoprx commands since the last startrx command
    dma_out      \* history: the bytes handed to the transmit DMA, in order

vars == << rx, rx_state, rx_waker, tx, tx_state, tx_waker, uarte, hw, line,
           src, irq_pend, pc, fatal, drop_state, written, readout, view,
           rx_woken, tx_woken, rx_open, tx_open, rx_used, tx_used, early,
           cs, wr, rx_stops, dma_out >>

drv == << rx, rx_state, rx_waker, tx, tx_state, tx_waker >>
hist == << written, readout, rx_open, tx_open, rx_used, tx_used >>

NoEarly == [phase |-> "none", ptr |-> 0, k |-> 0, max |-> 0]

Min(a, b) == IF a <= b THEN a ELSE b

(* ---------------------------- RingBuffer ------------------------------ *)
\* A slice of a buffer: the index of its first byte and its length.
Slice(p, n) == [ptr |-> p, len |-> n]

RingBufferNew(n) ==
    [buf |-> [i \in 1..n |-> 0], start |-> 0, end |-> 0, empty |-> TRUE]

Cap(rb) == Len(rb.buf)

wrap(rb, n) == IF n >= Cap(rb) THEN n - Cap(rb) ELSE n

\* the contiguous writable (free) region
push_buf(rb) ==
    IF rb.start = rb.end /\ ~rb.empty
    THEN Slice(0, 0)
    ELSE IF rb.start <= rb.end
         THEN Slice(rb.end, Cap(rb) - rb.end)
         ELSE Slice(rb.end, rb.start - rb.end)

\* commit n bytes of the writable region
push(rb, n) ==
    IF n = 0 THEN rb
    ELSE [rb EXCEPT !.end = wrap(rb, rb.end + n), !.empty = FALSE]

\* the contiguous readable (filled) region
pop_buf(rb) ==
    IF rb.empty
    THEN Slice(0, 0)
    ELSE IF rb.end <= rb.start
         THEN Slice(rb.start, Cap(rb) - rb.start)
         ELSE Slice(rb.start, rb.end - rb.start)

\* release n bytes of the readable region
pop(rb, n) ==
    IF n = 0 THEN rb
    ELSE LET s == wrap(rb, rb.start + n)
         IN  [rb EXCEPT !.start = s, !.empty = (s = rb.end)]

\* the bytes of a slice of the buffer
Bytes(rb, s) == [i \in 1..s.len |-> rb.buf[s.ptr + i]]

\* the buffer after copying the sequence d to index p onwards
CopyIn(rb, p, d) ==
    [rb EXCEPT !.buf = [i \in 1..Cap(rb) |->
        IF i > p /\ i <= p + Len(d) THEN d[i - p] ELSE rb.buf[i]]]

(* --------------------------- TxState values --------------------------- *)
TxIdle == [tag |-> "Idle", n |-> 0]
Transmitting(n) == [tag |-> "Transmitting", n |-> n]

(* ------------------------ the UARTE peripheral ------------------------ *)
UarteReset ==
    [events_rxdrdy |-> FALSE, events_endrx |-> FALSE, events_endtx |-> FALSE,
     inten_rxdrdy |-> FALSE,
     rxd_ptr |-> 0, rxd_maxcnt |-> 0, rxd_amount |-> 0,
     txd_ptr |-> 0, txd_maxcnt |-> 0]

HwReset == [rx_on |-> FALSE, rx_cnt |-> 0, rx_stop |-> FALSE,
            tx_on |-> FALSE, tx_cnt |-> 0]

\* effect of writing 1 to TASKS_STARTRX / TASKS_STOPRX / TASKS_STARTTX
tasks_startrx(h) == [h EXCEPT !.rx_on = TRUE, !.rx_cnt = 0, !.rx_stop = FALSE]
tasks_stoprx(h) == IF h.rx_on THEN [h EXCEPT !.rx_stop = TRUE] ELSE h
tasks_starttx(h) == [h EXCEPT !.tx_on = TRUE, !.tx_cnt = 0]

\* the interrupt line of the peripheral: INTEN has endrx and endtx set by
\* new(), rxdrdy set and cleared by on_interrupt; irq.pend() sets it too
IrqLine ==
    \/ irq_pend
    \/ uarte.events_endrx
    \/ uarte.events_endtx
    \/ (uarte.events_rxdrdy /\ uarte.inten_rxdrdy)

(* ------------------------------- Init --------------------------------- *)
\* BufferedUarte::new over an rx and a tx buffer of n bytes each; ext is what
\* an external sender will transmit to the receiver
InitWith(n, ext) ==
    /\ rx = RingBufferNew(n)
    /\ rx_state = "Idle"
    /\ rx_waker = FALSE
    /\ tx = RingBufferNew(n)
    /\ tx_state = TxIdle
    /\ tx_waker = FALSE
    /\ uarte = UarteReset
    /\ hw = HwReset
    /\ line = << >>
    /\ src = ext
    /\ irq_pend = TRUE
    /\ pc = "task"
    /\ fatal = FALSE
    /\ drop_state = "alive"
    /\ written = << >>
    /\ readout = << >>
    /\ view = Slice(0, 0)
    /\ rx_woken = FALSE
    /\ tx_woken = FALSE
    /\ rx_open = 0
    /\ tx_open = 0
    /\ rx_used = 0
    /\ tx_used = 0
    /\ early = NoEarly
    /\ cs = "none"
    /\ wr = [req |-> 0, ret |-> 0, free |-> 0]
    /\ rx_stops = 0
    /\ dma_out = << >>

Init == InitWith(BufLen, << >>)

(* ---------------------- task context (inner().with) ------------------- *)
\* the task context runs only while on_interrupt is not running (the
\* interrupt preempts it and runs to completion)
TaskCtx == pc = "task" /\ ~fatal /\ drop_state = "alive"

\* mutant: the interrupt is not masked during PeripheralMutex::with
irq_unmasked_always == TRUE

\* PeripheralMutex::with masks the interrupt for the time of its closure
irq_unmasked == cs = "none"

\* inside the closure of PeripheralMutex::with
InWith == TaskCtx /\ cs = "in"

\* self.inner().with(..): the task context enters the critical section;
\* the closure, one of the task operations below, is the step that ends it
with_enter ==
    /\ TaskCtx
    /\ cs = "none"
    /\ cs' = "in"
    /\ UNCHANGED << drv, uarte, hw, line, src, irq_pend, pc, fatal,
                    drop_state, hist, early, view, rx_woken, tx_woken, wr,
                    rx_stops, dma_out >>

\* mutant: the state moves to Stopping but stoprx is never written
poll_fill_buf_nostop ==
    /\ InWith
    /\ LET buf == pop_buf(rx) IN
       IF buf.len # 0
       THEN /\ view' = buf
            /\ early' = IF early.phase = "committed"
                        THEN [early EXCEPT !.phase = "returned"]
                        ELSE early
            /\ UNCHANGED << rx_state, rx_waker, hw >>
       ELSE /\ IF rx_state = "ReceivingReady"
               THEN /\ rx_state' = "Stopping"
                    /\ hw' = hw
                    /\ early' = IF hw.rx_on
                                THEN [phase |-> "stopping",
                                      ptr |-> uarte.rxd_ptr,
                                      k |-> hw.rx_cnt,
                                      max |-> uarte.rxd_maxcnt]
                                ELSE NoEarly
               ELSE UNCHANGED << rx_state, hw, early >>
            /\ rx_waker' = TRUE
            /\ view' = Slice(0, 0)
    /\ rx_woken' = FALSE
    /\ UNCHANGED << rx, tx, tx_state, tx_waker, uarte, line, src, irq_pend,
                    pc, fatal, drop_state, tx_woken, hist >>
    /\ rx_stops' = IF pop_buf(rx).len = 0 /\ rx_state = "ReceivingReady"
                   THEN rx_stops + 1 ELSE rx_stops
    /\ cs' = "none"
    /\ UNCHANGED << wr, dma_out >>

\* mutant: the early stop is requested in every state but Idle
poll_fill_buf_stop_any ==
    /\ InWith
    /\ LET buf == pop_buf(rx) IN
       IF buf.len # 0
       THEN /\ view' = buf
            /\ early' = IF early.phase = "committed"
                        THEN [early EXCEPT !.phase = "returned"]
                        ELSE early
            /\ UNCHANGED << rx_state, rx_waker, hw >>
       ELSE /\ IF rx_state # "Idle"
               THEN /\ rx_state' = "Stopping"
                    /\ hw' = tasks_stoprx(hw)
                    /\ early' = IF hw.rx_on
                                THEN [phase |-> "stopping",
                                      ptr |-> uarte.rxd_ptr,
                                      k |-> hw.rx_cnt,
                                      max |-> uarte.rxd_maxcnt]
                                ELSE NoEarly
               ELSE UNCHANGED << rx_state, hw, early >>
            /\ rx_waker' = TRUE
            /\ view' = Slice(0, 0)
    /\ rx_woken' = FALSE
    /\ UNCHANGED << rx, tx, tx_state, tx_waker, uarte, line, src, irq_pend,
                    pc, fatal, drop_state, tx_woken, hist >>
    /\ rx_stops' = IF pop_buf(rx).len = 0 /\ rx_state # "Idle"
                   THEN rx_stops + 1 ELSE rx_stops
    /\ cs' = "none"
    /\ UNCHANGED << wr, dma_out >>

poll_fill_buf ==
    /\ InWith
    /\ LET buf == pop_buf(rx) IN
       IF buf.len # 0
       THEN /\ view' = buf
            /\ early' = IF early.phase = "committed"
                        THEN [early EXCEPT !.phase = "returned"]
                        ELSE early
            /\ UNCHANGED << rx_state, rx_waker, hw >>
       ELSE /\ IF rx_state = "ReceivingReady"
               THEN /\ rx_state' = "Stopping"
                    /\ hw' = tasks_stoprx(hw)
                    /\ early' = IF hw.rx_on
                                THEN [phase |-> "stopping",
                                      ptr |-> uarte.rxd_ptr,
                                      k |-> hw.rx_cnt,
                                      max |-> uarte.rxd_maxcnt]
                                ELSE NoEarly
               ELSE UNCHANGED << rx_state, hw, early >>
            /\ rx_waker' = TRUE
            /\ view' = Slice(0, 0)
    /\ rx_woken' = FALSE
    /\ UNCHANGED << rx, tx, tx_state, tx_waker, uarte, line, src, irq_pend,
                    pc, fatal, drop_state, tx_woken, hist >>
    /\ rx_stops' = IF pop_buf(rx).len = 0 /\ rx_state = "ReceivingReady"
                   THEN rx_stops + 1 ELSE rx_stops
    /\ cs' = "none"
    /\ UNCHANGED << wr, dma_out >>

\* mutant: consume releases the bytes without irq.pend()
consume_nopend(amt) ==
    /\ InWith
    /\ amt <= view.len
    /\ readout' = readout \o Bytes(rx, Slice(view.ptr, amt))
    /\ rx' = pop(rx, amt)
    /\ rx_used' = rx_used - amt
    /\ irq_pend' = irq_pend
    /\ view' = Slice(0, 0)
    /\ UNCHANGED << rx_state, rx_waker, tx, tx_state, tx_waker, uarte, hw,
                    line, src, pc, fatal, drop_state, written, rx_woken,
                    tx_woken, rx_open, tx_open, tx_used, early >>
    /\ cs' = "none"
    /\ UNCHANGED << wr, rx_stops, dma_out >>

\* amt is at most the length of the slice poll_fill_buf returned
consume(amt) ==
    /\ InWith
    /\ amt <= view.len
    /\ readout' = readout \o Bytes(rx, Slice(view.ptr, amt))
    /\ rx' = pop(rx, amt)
    /\ rx_used' = rx_used - amt
    /\ irq_pend' = TRUE
    /\ view' = Slice(0, 0)
    /\ UNCHANGED << rx_state, rx_waker, tx, tx_state, tx_waker, uarte, hw,
                    line, src, pc, fatal, drop_state, written, rx_woken,
                    tx_woken, rx_open, tx_open, tx_used, early >>
    /\ cs' = "none"
    /\ UNCHANGED << wr, rx_stops, dma_out >>

\* mutant: the whole request is committed, whatever fits
accept_len_nomin(avail, len) == len

\* let n = min(tx_buf.len(), buf.len())
accept_len(avail, len) == Min(avail, len)

\* the writer passes the next len bytes of its stream 1, 2, 3, ... of
\* total bytes; byte number i has the value i
poll_write(len, total) ==
    /\ InWith
    /\ len >= 1
    /\ Len(written) + len <= total
    /\ LET buf == [i \in 1..len |-> Len(written) + i]
           tx_buf == push_buf(tx)
           n == accept_len(tx_buf.len, len)
       IN  IF tx_buf.len = 0
           THEN /\ tx_waker' = TRUE
                /\ wr' = [req |-> len, ret |-> -1, free |-> Cap(tx) - tx_used]
                /\ UNCHANGED << tx, written, tx_used, irq_pend >>
           ELSE /\ tx' = push(CopyIn(tx, tx_buf.ptr, SubSeq(buf, 1, n)), n)
                /\ written' = written \o SubSeq(buf, 1, n)
                /\ tx_used' = tx_used + n
                /\ irq_pend' = TRUE
                /\ wr' = [req |-> len, ret |-> n, free |-> Cap(tx) - tx_used]
                /\ UNCHANGED tx_waker
    /\ tx_woken' = FALSE
    /\ UNCHANGED << rx, rx_state, rx_waker, tx_state, uarte, hw, line, src,
                    pc, fatal, drop_state, readout, view, rx_woken,
                    rx_open, tx_open, rx_used, early >>
    /\ cs' = "none"
    /\ UNCHANGED << rx_stops, dma_out >>

\* Drop for BufferedUarte: the body is todo!(), a panic.  Depending on the
\* panic strategy of the build the program halts there, or unwinds and the
\* buffers borrowed by the driver are released to their owner.
Drop ==
    /\ TaskCtx /\ cs = "none"
    /\ drop_state' \in {"halted", "released"}
    /\ UNCHANGED << drv, uarte, hw, line, src, irq_pend, pc, fatal, hist,
                    early, view, rx_woken, tx_woken >>
    /\ UNCHANGED << cs, wr, rx_stops, dma_out >>

(* ------------------- interrupt context (on_interrupt) ----------------- *)
\* the interrupt is taken when its line is raised and the task context is
\* outside a critical section; taking it clears the pending bit
on_interrupt ==
    /\ TaskCtx /\ irq_unmasked
    /\ IrqLine
    /\ pc' = "rx"
    /\ irq_pend' = FALSE
    /\ UNCHANGED << drv, uarte, hw, line, src, fatal, drop_state, hist,
                    early, view, rx_woken, tx_woken >>
    /\ UNCHANGED << cs, wr, rx_stops, dma_out >>

\* mutant: the receive DMA is armed up to the end of the buffer, whether
\* or not those bytes are free
rx_dma_buf_to_end(rb) == Slice(rb.end, Cap(rb) - rb.end)

\* let buf = self.rx.push_buf(): the region the receive DMA is armed with
rx_dma_buf(rb) == push_buf(rb)

\* mutant: the state is left Idle after the receive DMA is armed
rx_state_stays_idle == "Idle"

\* self.rx_state = RxState::Receiving, on arming the receive DMA
rx_state_started == "Receiving"

\* one iteration of the first loop, match arm RxState::Idle
irq_rx_Idle ==
    /\ pc = "rx" /\ ~fatal
    /\ rx_state = "Idle"
    /\ IF uarte.events_endrx
       THEN /\ fatal' = TRUE
            /\ uarte' = [uarte EXCEPT !.events_rxdrdy = FALSE]
            /\ UNCHANGED << rx_state, hw, rx_open, pc >>
       ELSE /\ LET buf == rx_dma_buf(rx) IN
               IF buf.len # 0
               THEN /\ rx_state' = rx_state_started
                    /\ uarte' = [uarte EXCEPT !.rxd_ptr = buf.ptr,
                                              !.rxd_maxcnt = buf.len,
                                              !.events_rxdrdy = FALSE,
                                              !.inten_rxdrdy = TRUE]
                    /\ hw' = tasks_startrx(hw)
                    /\ rx_open' = rx_open + 1
               ELSE /\ uarte' = [uarte EXCEPT !.events_rxdrdy = FALSE]
                    /\ UNCHANGED << rx_state, hw, rx_open >>
            /\ pc' = "tx"
            /\ UNCHANGED fatal
    /\ UNCHANGED << rx, rx_waker, tx, tx_state, tx_waker, line, src, irq_pend,
                    drop_state, written, readout, view, rx_woken, tx_woken,
                    tx_open, rx_used, tx_used, early >>
    /\ rx_stops' = IF ~uarte.events_endrx /\ rx_dma_buf(rx).len # 0
                   THEN 0 ELSE rx_stops
    /\ UNCHANGED << cs, wr, dma_out >>

\* mutant: the first byte is handled without intenclr of rxdrdy
irq_rx_Receiving_nointenclr ==
    /\ pc = "rx" /\ ~fatal
    /\ rx_state = "Receiving"
    /\ IF uarte.events_rxdrdy
       THEN /\ uarte' = [uarte EXCEPT !.events_rxdrdy = FALSE]
            /\ rx_woken' = (rx_woken \/ rx_waker)
            /\ rx_waker' = FALSE
            /\ rx_state' = "ReceivingReady"
            /\ pc' = "rx"
       ELSE /\ pc' = "tx"
            /\ UNCHANGED << uarte, rx_woken, rx_waker, rx_state >>
    /\ UNCHANGED << rx, tx, tx_state, tx_waker, hw, line, src, irq_pend,
                    fatal, drop_state, hist, early, view, tx_woken >>
    /\ UNCHANGED << cs, wr, rx_stops, dma_out >>

\* match arm RxState::Receiving
irq_rx_Receiving ==
    /\ pc = "rx" /\ ~fatal
    /\ rx_state = "Receiving"
    /\ IF uarte.events_rxdrdy
       THEN /\ uarte' = [uarte EXCEPT !.inten_rxdrdy = FALSE,
                                      !.events_rxdrdy = FALSE]
            /\ rx_woken' = (rx_woken \/ rx_waker)
            /\ rx_waker' = FALSE
            /\ rx_state' = "ReceivingReady"
            /\ pc' = "rx"
       ELSE /\ pc' = "tx"
            /\ UNCHANGED << uarte, rx_woken, rx_waker, rx_state >>
    /\ UNCHANGED << rx, tx, tx_state, tx_waker, hw, line, src, irq_pend,
                    fatal, drop_state, hist, early, view, tx_woken >>
    /\ UNCHANGED << cs, wr, rx_stops, dma_out >>

\* mutant: the programmed length is committed, not the amount received
endrx_amount_maxcnt(u) == u.rxd_maxcnt

\* let n = self.inner.rxd.amount.read().amount().bits()
endrx_amount(u) == u.rxd_amount

\* mutant: endrx is handled without self.rx_waker.wake()
irq_rx_ReceivingReady_nowake ==
    /\ pc = "rx" /\ ~fatal
    /\ rx_state \in {"ReceivingReady", "Stopping"}
    /\ IF uarte.events_endrx
       THEN /\ LET n == endrx_amount(uarte) IN
               /\ rx' = push(rx, n)
               /\ rx_used' = rx_used + n
            /\ uarte' = [uarte EXCEPT !.events_rxdrdy = FALSE,
                                      !.events_endrx = FALSE]
            /\ UNCHANGED << rx_woken, rx_waker >>
            /\ rx_state' = "Idle"
            /\ rx_open' = rx_open - 1
            /\ early' = IF early.phase = "stopping"
                        THEN [early EXCEPT !.phase = "committed"]
                        ELSE NoEarly
            /\ pc' = "rx"
       ELSE /\ uarte' = [uarte EXCEPT !.events_rxdrdy = FALSE]
            /\ pc' = "tx"
            /\ UNCHANGED << rx, rx_used, rx_woken, rx_waker, rx_state,
                            rx_open, early >>
    /\ UNCHANGED << tx, tx_state, tx_waker, hw, line, src, irq_pend, fatal,
                    drop_state, written, readout, view, tx_woken, tx_open,
                    tx_used >>
    /\ UNCHANGED << cs, wr, rx_stops, dma_out >>

\* mutant: the transfer-complete arm does not set more_work, the loop ends
irq_rx_ReceivingReady_nomore ==
    /\ pc = "rx" /\ ~fatal
    /\ rx_state \in {"ReceivingReady", "Stopping"}
    /\ IF uarte.events_endrx
       THEN /\ LET n == endrx_amount(uarte) IN
               /\ rx' = push(rx, n)
               /\ rx_used' = rx_used + n
            /\ uarte' = [uarte EXCEPT !.events_rxdrdy = FALSE,
                                      !.events_endrx = FALSE]
            /\ rx_woken' = (rx_woken \/ rx_waker)
            /\ rx_waker' = FALSE
            /\ rx_state' = "Idle"
            /\ rx_open' = rx_open - 1
            /\ early' = IF early.phase = "stopping"
                        THEN [early EXCEPT !.phase = "committed"]
                        ELSE NoEarly
            /\ pc' = "tx"
       ELSE /\ uarte' = [uarte EXCEPT !.events_rxdrdy = FALSE]
            /\ pc' = "tx"
            /\ UNCHANGED << rx, rx_used, rx_woken, rx_waker, rx_state,
                            rx_open, early >>
    /\ UNCHANGED << tx, tx_state, tx_waker, hw, line, src, irq_pend, fatal,
                    drop_state, written, readout, view, tx_woken, tx_open,
                    tx_used >>
    /\ UNCHANGED << cs, wr, rx_stops, dma_out >>

\* match arm RxState::ReceivingReady | RxState::Stopping
irq_rx_ReceivingReady ==
    /\ pc = "rx" /\ ~fatal
    /\ rx_state \in {"ReceivingReady", "Stopping"}
    /\ IF uarte.events_endrx
       THEN /\ LET n == endrx_amount(uarte) IN
               /\ rx' = push(rx, n)
               /\ rx_used' = rx_used + n
            /\ uarte' = [uarte EXCEPT !.events_rxdrdy = FALSE,
                                      !.events_endrx = FALSE]
            /\ rx_woken' = (rx_woken \/ rx_waker)
            /\ rx_waker' = FALSE
            /\ rx_state' = "Idle"
            /\ rx_open' = rx_open - 1
            /\ early' = IF early.phase = "stopping"
                        THEN [early EXCEPT !.phase = "committed"]
                        ELSE NoEarly
            /\ pc' = "rx"
       ELSE /\ uarte' = [uarte EXCEPT !.events_rxdrdy = FALSE]
            /\ pc' = "tx"
            /\ UNCHANGED << rx, rx_used, rx_woken, rx_waker, rx_state,
                            rx_open, early >>
    /\ UNCHANGED << tx, tx_state, tx_waker, hw, line, src, irq_pend, fatal,
                    drop_state, written, readout, view, tx_woken, tx_open,
                    tx_used >>
    /\ UNCHANGED << cs, wr, rx_stops, dma_out >>

\* one iteration of the second loop, match arm TxState::Idle
irq_tx_Idle ==
    /\ pc = "tx"
    /\ tx_state = TxIdle
    /\ LET buf == pop_buf(tx) IN
       IF buf.len # 0
       THEN /\ tx_state' = Transmitting(buf.len)
            /\ uarte' = [uarte EXCEPT !.txd_ptr = buf.ptr,
                                      !.txd_maxcnt = buf.len]
            /\ hw' = tasks_starttx(hw)
            /\ tx_open' = tx_open + 1
       ELSE UNCHANGED << tx_state, uarte, hw, tx_open >>
    /\ pc' = "task"
    /\ UNCHANGED << rx, rx_state, rx_waker, tx, tx_waker, line, src, irq_pend,
                    fatal, drop_state, written, readout, view, rx_woken,
                    tx_woken, rx_open, rx_used, tx_used, early >>
    /\ dma_out' = dma_out \o Bytes(tx, pop_buf(tx))
    /\ UNCHANGED << cs, wr, rx_stops >>

\* mutant: endtx is handled without self.tx_waker.wake()
irq_tx_Transmitting_nowake ==
    /\ pc = "tx"
    /\ tx_state.tag = "Transmitting"
    /\ IF uarte.events_endtx
       THEN /\ uarte' = [uarte EXCEPT !.events_endtx = FALSE]
            /\ tx' = pop(tx, tx_state.n)
            /\ tx_used' = tx_used - tx_state.n
            /\ UNCHANGED << tx_woken, tx_waker >>
            /\ tx_state' = TxIdle
            /\ tx_open' = tx_open - 1
            /\ pc' = "tx"
       ELSE /\ pc' = "task"
            /\ UNCHANGED << uarte, tx, tx_used, tx_woken, tx_waker, tx_state,
                            tx_open >>
    /\ UNCHANGED << rx, rx_state, rx_waker, hw, line, src, irq_pend, fatal,
                    drop_state, written, readout, view, rx_woken, rx_open,
                    rx_used, early >>
    /\ UNCHANGED << cs, wr, rx_stops, dma_out >>

\* mutant: endtx is handled without self.tx.pop(n)
irq_tx_Transmitting_nopop ==
    /\ pc = "tx"
    /\ tx_state.tag = "Transmitting"
    /\ IF uarte.events_endtx
       THEN /\ uarte' = [uarte EXCEPT !.events_endtx = FALSE]
            /\ tx' = tx
            /\ tx_used' = tx_used
            /\ tx_woken' = (tx_woken \/ tx_waker)
            /\ tx_waker' = FALSE
            /\ tx_state' = TxIdle
            /\ tx_open' = tx_open - 1
            /\ pc' = "tx"
       ELSE /\ pc' = "task"
            /\ UNCHANGED << uarte, tx, tx_used, tx_woken, tx_waker, tx_state,
                            tx_open >>
    /\ UNCHANGED << rx, rx_state, rx_waker, hw, line, src, irq_pend, fatal,
                    drop_state, written, readout, view, rx_woken, rx_open,
                    rx_used, early >>
    /\ UNCHANGED << cs, wr, rx_stops, dma_out >>

\* match arm TxState::Transmitting(n)
irq_tx_Transmitting ==
    /\ pc = "tx"
    /\ tx_state.tag = "Transmitting"
    /\ IF uarte.events_endtx
       THEN /\ uarte' = [uarte EXCEPT !.events_endtx = FALSE]
            /\ tx' = pop(tx, tx_state.n)
            /\ tx_used' = tx_used - tx_state.n
            /\ tx_woken' = (tx_woken \/ tx_waker)
            /\ tx_waker' = FALSE
            /\ tx_state' = TxIdle
            /\ tx_open' = tx_open - 1
            /\ pc' = "tx"
       ELSE /\ pc' = "task"
            /\ UNCHANGED << uarte, tx, tx_used, tx_woken, tx_waker, tx_state,
                            tx_open >>
    /\ UNCHANGED << rx, rx_state, rx_waker, hw, line, src, irq_pend, fatal,
                    drop_state, written, readout, view, rx_woken, rx_open,
                    rx_used, early >>
    /\ UNCHANGED << cs, wr, rx_stops, dma_out >>

(* -------------------- the peripheral and the line --------------------- *)
\* the receiver moves one byte from the line into RAM at RXD.PTR + count,
\* raises RXDRDY, and raises ENDRX when RXD.MAXCNT bytes are in
HwRxByte ==
    /\ hw.rx_on /\ ~hw.rx_stop
    /\ line # << >>
    /\ LET c == hw.rx_cnt + 1
           full == (c = uarte.rxd_maxcnt)
       IN  /\ rx' = [rx EXCEPT !.buf[uarte.rxd_ptr + c] = Head(line)]
           /\ hw' = [hw EXCEPT !.rx_cnt = c, !.rx_on = ~full]
           /\ uarte' = [uarte EXCEPT !.events_rxdrdy = TRUE,
                                     !.events_endrx = (@ \/ full),
                                     !.rxd_amount = IF full THEN c ELSE @]
    /\ line' = Tail(line)
    /\ UNCHANGED << rx_state, rx_waker, tx, tx_state, tx_waker, src, irq_pend,
                    pc, fatal, drop_state, hist, early, view, rx_woken,
                    tx_woken >>
    /\ UNCHANGED << cs, wr, rx_stops, dma_out >>

\* the receiver confirms a STOPRX: ENDRX with the bytes received so far
HwEndRx ==
    /\ hw.rx_on /\ hw.rx_stop
    /\ hw' = [hw EXCEPT !.rx_on = FALSE, !.rx_stop = FALSE]
    /\ uarte' = [uarte EXCEPT !.events_endrx = TRUE,
                              !.rxd_amount = hw.rx_cnt]
    /\ UNCHANGED << drv, line, src, irq_pend, pc, fatal, drop_state, hist,
                    early, view, rx_woken, tx_woken >>
    /\ UNCHANGED << cs, wr, rx_stops, dma_out >>

\* the transmitter sends the byte at TXD.PTR + count and raises ENDTX
\* after TXD.MAXCNT bytes; looped: the byte goes onto the receive line
\* (flow control holds the transmitter while the line is full)
HwTxByte(looped) ==
    /\ hw.tx_on
    /\ looped => Len(line) < MaxLine
    /\ LET c == hw.tx_cnt + 1
           done == (c = uarte.txd_maxcnt)
       IN  /\ line' = IF looped
                      THEN Append(line, tx.buf[uarte.txd_ptr + c])
                      ELSE line
           /\ hw' = [hw EXCEPT !.tx_cnt = c, !.tx_on = ~done]
           /\ uarte' = [uarte EXCEPT !.events_endtx = (@ \/ done)]
    /\ UNCHANGED << drv, src, irq_pend, pc, fatal, drop_state, hist, early,
                    view,
                    rx_woken, tx_woken >>
    /\ UNCHANGED << cs, wr, rx_stops, dma_out >>

\* an external sender puts its next byte on the receive line
ExtByte ==
    /\ src # << >>
    /\ Len(line) < MaxLine
    /\ line' = Append(line, Head(src))
    /\ src' = Tail(src)
    /\ UNCHANGED << drv, uarte, hw, irq_pend, pc, fatal, drop_state, hist,
                    early, view, rx_woken, tx_woken >>
    /\ UNCHANGED << cs, wr, rx_stops, dma_out >>

(* --------------------------- specifications --------------------------- *)
Driver(n) ==
    \/ with_enter
    \/ poll_fill_buf
    \/ \E amt \in 0..n : consume(amt)
    \/ on_interrupt
    \/ irq_rx_Idle
    \/ irq_rx_Receiving
    \/ irq_rx_ReceivingReady
    \/ irq_tx_Idle
    \/ irq_tx_Transmitting
    \/ HwRxByte
    \/ HwEndRx

\* the transmit line looped back to the receive line
Next ==
    \/ Driver(BufLen)
    \/ \E len \in 1..MaxWrite : poll_write(len, MaxBytes)
    \/ HwTxByte(TRUE)

Spec == Init /\ [][Next]_vars

\* Every raised interrupt is serviced (a pending interrupt is taken once it
\* is unmasked, however often the task context masks it again) and
\* on_interrupt runs to its end; the peripheral keeps moving bytes; the
\* reader keeps polling and consuming.
Fairness ==
    /\ SF_vars(on_interrupt)
    /\ WF_vars(irq_rx_Idle)
    /\ WF_vars(irq_rx_Receiving)
    /\ WF_vars(irq_rx_ReceivingReady)
    /\ WF_vars(irq_tx_Idle)
    /\ WF_vars(irq_tx_Transmitting)
    /\ WF_vars(HwRxByte)
    /\ WF_vars(HwEndRx)
    /\ WF_vars(HwTxByte(TRUE))
    /\ SF_vars(with_enter)
    /\ SF_vars(poll_fill_buf)
    /\ SF_vars(\E amt \in 1..BufLen : consume(amt))

FairSpec == Init /\ [][Next]_vars /\ Fairness

\* a peripheral that raises events no transfer accounts for, while the
\* receive state machine is Idle
SpuriousEndRx ==
    /\ rx_state = "Idle" /\ ~uarte.events_endrx
    /\ uarte' = [uarte EXCEPT !.events_endrx = TRUE]
    /\ UNCHANGED << drv, hw, line, src, irq_pend, pc, fatal, drop_state, hist,
                    early, view, rx_woken, tx_woken >>
    /\ UNCHANGED << cs, wr, rx_stops, dma_out >>

SpuriousRxdrdy ==
    /\ rx_state = "Idle" /\ ~uarte.events_rxdrdy
    /\ uarte' = [uarte EXCEPT !.events_rxdrdy = TRUE]
    /\ UNCHANGED << drv, hw, line, src, irq_pend, pc, fatal, drop_state, hist,
                    early, view, rx_woken, tx_woken >>
    /\ UNCHANGED << cs, wr, rx_stops, dma_out >>

FaultNext ==
    \/ Next
    \/ SpuriousEndRx
    \/ SpuriousRxdrdy

FaultSpec == Init /\ [][FaultNext]_vars

\* a stale ENDTX: the event is set while no transmit transfer is in flight
SpuriousEndTx ==
    /\ tx_state = TxIdle /\ ~hw.tx_on /\ ~uarte.events_endtx
    /\ uarte' = [uarte EXCEPT !.events_endtx = TRUE]
    /\ UNCHANGED << drv, hw, line, src, irq_pend, pc, fatal, drop_state, hist,
                    early, view, rx_woken, tx_woken >>
    /\ UNCHANGED << cs, wr, rx_stops, dma_out >>

StaleNext ==
    \/ Next
    \/ SpuriousEndTx

StaleSpec == Init /\ [][StaleNext]_vars

\* the driver may be dropped at any time
DropNext ==
    \/ Next
    \/ Drop

DropSpec == Init /\ [][DropNext]_vars

\* the end-to-end scenario: 8-byte buffers, the writer offers [1,2,3,4,5]
\* in one call, an external sender transmits [9,8,7], the transmit line
\* is not looped back
ScenarioInit == InitWith(8, << 9, 8, 7 >>)

ScenarioNext ==
    \/ Driver(8)
    \/ poll_write(5, 5)
    \/ HwTxByte(FALSE)
    \/ ExtByte

ScenarioSpec == ScenarioInit /\ [][ScenarioNext]_vars

(* ------------------------------ claims -------------------------------- *)
IsPrefix(a, b) == Len(a) <= Len(b) /\ SubSeq(b, 1, Len(a)) = a

\* C1: with the transmit line looped back, the bytes consume has released to
\* the reader are always a prefix of the bytes poll_write accepted (none
\* dropped, duplicated or reordered), and with interrupts serviced and a
\* reader that keeps polling and consuming the reader eventually has them all.
ByteConservation ==
    /\ [](IsPrefix(readout, written))
    /\ <>[](readout = written)

\* all the bytes went round, across a wrap of both ring buffers
ByteConservationWitness ==
    /\ Len(readout) = MaxBytes
    /\ readout = written
    /\ MaxBytes > BufLen

\* the indices (from 0) of a slice, of the filled and of the free region
Region(sl) == {sl.ptr + i : i \in 0..(sl.len - 1)}

FilledIdx(rb) ==
    IF rb.empty THEN {}
    ELSE IF rb.start < rb.end
         THEN rb.start..(rb.end - 1)
         ELSE (rb.start..(Cap(rb) - 1)) \cup (0..(rb.end - 1))

FreeIdx(rb) ==
    IF rb.start = rb.end /\ ~rb.empty THEN {}
    ELSE IF rb.start <= rb.end
         THEN (rb.end..(Cap(rb) - 1)) \cup (0..(rb.start - 1))
         ELSE rb.end..(rb.start - 1)

RxInFlight == rx_state \in {"Receiving", "ReceivingReady", "Stopping"}
RxDma == Region(Slice(uarte.rxd_ptr, uarte.rxd_maxcnt))
TxDma == Region(Slice(uarte.txd_ptr, uarte.txd_maxcnt))

\* C2: while a receive transfer is in flight the region programmed into
\* RXD.PTR/MAXCNT lies in the free region of rx, apart from every slice
\* poll_fill_buf returns or has returned, and no more than MAXCNT bytes are
\* received or committed; while tx_state is Transmitting(n) the n bytes
\* programmed into TXD.PTR/MAXCNT lie in the filled region of tx, apart from
\* the region poll_write copies into, and n is at most the filled length.
NoDmaOverlap ==
    /\ RxInFlight =>
          /\ uarte.rxd_maxcnt >= 1
          /\ RxDma \subseteq FreeIdx(rx)
          /\ RxDma \cap Region(pop_buf(rx)) = {}
          /\ RxDma \cap Region(view) = {}
          /\ hw.rx_cnt <= uarte.rxd_maxcnt
          /\ uarte.events_endrx => endrx_amount(uarte) <= uarte.rxd_maxcnt
    /\ tx_state.tag = "Transmitting" =>
          /\ tx_state.n >= 1
          /\ uarte.txd_maxcnt = tx_state.n
          /\ TxDma \subseteq FilledIdx(tx)
          /\ TxDma \cap Region(push_buf(tx)) = {}
          /\ tx_state.n <= Cardinality(FilledIdx(tx))

\* both DMA engines run next to data the tasks own: the reader holds a
\* slice of rx while the receive DMA fills the wrapped-around free region
\* before it, and the writer can still copy into tx
NoDmaOverlapWitness ==
    /\ rx_state = "ReceivingReady" /\ hw.rx_on /\ hw.rx_cnt >= 1
    /\ view.len >= 1 /\ uarte.rxd_ptr < rx.start
    /\ tx_state.tag = "Transmitting" /\ hw.tx_on
    /\ push_buf(tx).len >= 1

\* C3: RXD.PTR/MAXCNT are written and startrx is issued only by the
\* Idle -> Receiving transition of on_interrupt, TXD.PTR/MAXCNT and starttx
\* only by its Idle -> Transmitting(n) transition, each with no transfer of
\* that direction started and not yet completed; no task operation does so.
OneTransferStep ==
    /\ (\/ uarte'.rxd_ptr # uarte.rxd_ptr
        \/ uarte'.rxd_maxcnt # uarte.rxd_maxcnt
        \/ rx_open' > rx_open)
       => /\ pc = "rx" /\ rx_state = "Idle" /\ rx_state' = "Receiving"
          /\ rx_open = 0 /\ rx_open' = 1
    /\ (\/ uarte'.txd_ptr # uarte.txd_ptr
        \/ uarte'.txd_maxcnt # uarte.txd_maxcnt
        \/ tx_open' > tx_open)
       => /\ pc = "tx" /\ tx_state = TxIdle /\ tx_state'.tag = "Transmitting"
          /\ tx_open = 0 /\ tx_open' = 1
    /\ rx_open' \in {0, 1}
    /\ tx_open' \in {0, 1}
    /\ (rx_open' = 1) <=> (rx_state' # "Idle")
    /\ (tx_open' = 1) <=> (tx_state' # TxIdle)

OneTransferInFlight == [][OneTransferStep]_vars

\* a second transfer of each direction is in flight, after the first ones
\* went round
OneTransferInFlightWitness ==
    /\ rx_open = 1 /\ rx_state = "Receiving" /\ uarte.rxd_ptr > 0
    /\ tx_open = 1 /\ tx_state.tag = "Transmitting" /\ uarte.txd_ptr > 0

\* C4: an iteration of on_interrupt that commits bytes into an empty rx
\* with a reader registered wakes that reader and clears the registration;
\* one that releases bytes of a full tx with a writer registered wakes that
\* writer; so both are woken before on_interrupt returns.
WakeStep ==
    /\ (pc # "task" /\ rx_waker /\ pop_buf(rx).len = 0 /\ pop_buf(rx').len # 0)
       => (~rx_waker' /\ rx_woken')
    /\ (pc # "task" /\ tx_waker /\ push_buf(tx).len = 0
                    /\ push_buf(tx').len # 0)
       => (~tx_waker' /\ tx_woken')
    /\ (pc # "task" /\ pc' = "task")
       => /\ (rx_waker' => pop_buf(rx').len = 0)
          /\ (tx_waker' => push_buf(tx').len = 0)

WakeLiveness == [][WakeStep]_vars

\* on_interrupt has just committed the bytes of an early-stopped transfer
\* (the reader registered when it asked for the stop) and is about to
\* return, and it released bytes of a full tx whose writer had registered
WakeLivenessWitness ==
    /\ pc = "tx" /\ tx_state = TxIdle /\ tx_woken /\ ~tx_waker
    /\ push_buf(tx).len # 0
    /\ early.phase = "committed" /\ rx_woken /\ ~rx_waker
    /\ pop_buf(rx).len # 0

\* C5: poll_fill_buf on an empty rx in ReceivingReady, the transfer having
\* received k bytes, fewer than programmed, issues stoprx and moves to
\* Stopping; the transfer receives nothing more; when its endrx is handled
\* exactly those k bytes are committed, and until then poll_fill_buf finds
\* nothing; the poll_fill_buf after it returns exactly those k bytes, the
\* next k bytes of the stream.
EarlyStopStep ==
    /\ (poll_fill_buf /\ rx_state = "ReceivingReady" /\ rx.empty /\ hw.rx_on)
       => /\ rx_state' = "Stopping"
          /\ hw'.rx_stop
          /\ early' = [phase |-> "stopping", ptr |-> uarte.rxd_ptr,
                        k |-> hw.rx_cnt, max |-> uarte.rxd_maxcnt]
          /\ view'.len = 0
    /\ early.phase = "stopping"
       => /\ rx_state = "Stopping" /\ rx.empty
          /\ hw.rx_cnt = early.k
          /\ early.k >= 1 /\ early.k < early.max
          /\ early.ptr = uarte.rxd_ptr /\ early.max = uarte.rxd_maxcnt
          /\ (rx_state' = "Idle") => (early'.phase = "committed")
          /\ (rx_state' # "Idle") => (early' = early)
    /\ early.phase = "committed"
       => /\ pop_buf(rx) = Slice(early.ptr, early.k)
          /\ Len(written) >= Len(readout) + early.k
          /\ Bytes(rx, pop_buf(rx)) =
                SubSeq(written, Len(readout) + 1, Len(readout) + early.k)
          /\ poll_fill_buf => /\ view' = Slice(early.ptr, early.k)
                              /\ early'.phase = "returned"

WakerInvariant ==
    pc = "task" =>
        /\ (rx_waker => pop_buf(rx).len = 0 /\ FilledIdx(rx) = {})
        /\ (tx_waker => push_buf(tx).len = 0 /\ FreeIdx(tx) = {})

\* both tasks wait: the reader on an empty rx, the writer on a full tx
WakerInvariantWitness ==
    /\ pc = "task" /\ rx_waker /\ tx_waker
    /\ rx.empty /\ Cardinality(FilledIdx(tx)) = Cap(tx)

\* C10: the filled and the free region of rx do not overlap and together
\* make up the buffer, the filled one holding what was committed and not
\* yet released; likewise for tx.
Accounted(rb, used) ==
    /\ rb.start \in 0..(Cap(rb) - 1)
    /\ rb.end \in 0..(Cap(rb) - 1)
    /\ FilledIdx(rb) \cap FreeIdx(rb) = {}
    /\ Cardinality(FilledIdx(rb)) + Cardinality(FreeIdx(rb)) = Cap(rb)
    /\ Cardinality(FilledIdx(rb)) = used

RingAccounting == Accounted(rx, rx_used) /\ Accounted(tx, tx_used)

\* both buffers hold data across their wrap
RingAccountingWitness ==
    /\ rx_used >= 2 /\ rx.end <= rx.start /\ rx.start > 0
    /\ tx_used >= 2 /\ tx.end <= tx.start /\ tx.start > 0

nofatal == << drv, uarte, hw, line, src, irq_pend, pc, drop_state, hist,
              early, view, rx_woken, tx_woken, cs, wr, rx_stops, dma_out >>

\* C6: an iteration of on_interrupt that finds rx_state Idle and endrx set
\* panics, and changes nothing of the driver or the peripheral before it.
FatalPathStep ==
    (irq_rx_Idle /\ uarte.events_endrx) => (fatal' /\ UNCHANGED nofatal)

FatalPath == [][FatalPathStep]_vars

\* C7: once drop has released the buffers no DMA transfer is in flight.
DropHaltsDma ==
    drop_state = "released" => (~hw.rx_on /\ ~hw.tx_on)

\* C8: the end-to-end scenario, step by step.
ScenarioStep ==
    /\ poll_write(5, 5)
       => /\ written' = << 1, 2, 3, 4, 5 >>
          /\ Bytes(tx', pop_buf(tx')) = << 1, 2, 3, 4, 5 >>
          /\ irq_pend'
    /\ (pc = "tx" /\ pc' = "task" /\ tx_used' = 5)
       => /\ tx_state' = Transmitting(5)
          /\ uarte'.txd_ptr = 0 /\ uarte'.txd_maxcnt = 5
    /\ (tx_state = Transmitting(5) /\ tx_state' # tx_state)
       => /\ uarte.events_endtx /\ ~uarte'.events_endtx
          /\ tx_state' = TxIdle
          /\ tx_used' = 0 /\ FilledIdx(tx') = {} /\ FreeIdx(tx') = 0..7
    /\ (pc = "tx" /\ pc' = "task" /\ tx_used' = 0) => tx_state' = TxIdle
    /\ (rx_state = "Idle" /\ rx_state' # "Idle" /\ rx = RingBufferNew(8))
       => /\ rx_state' = "Receiving"
          /\ uarte'.rxd_ptr = 0 /\ uarte'.rxd_maxcnt = 8
          /\ hw'.rx_on /\ uarte'.inten_rxdrdy
    /\ (rx_state = "Receiving" /\ rx_state' # "Receiving")
       => /\ uarte.events_rxdrdy
          /\ rx_state' = "ReceivingReady"
          /\ ~rx_waker' /\ (rx_waker => rx_woken')
    /\ (irq_rx_ReceivingReady /\ uarte.events_endrx /\ uarte.rxd_amount = 3)
       => /\ rx_used' = 3
          /\ pop_buf(rx') = Slice(0, 3)
          /\ Bytes(rx', pop_buf(rx')) = << 9, 8, 7 >>
          /\ rx_state' = "Idle"
    /\ (poll_fill_buf /\ rx_used = 3)
       => /\ view' = Slice(0, 3)
          /\ Bytes(rx, view') = << 9, 8, 7 >>
    /\ (consume(3) /\ rx_used = 3)
       => /\ rx_used' = 0 /\ FilledIdx(rx') = {} /\ rx'.empty
          /\ readout' = << 9, 8, 7 >>

Scenario == [][ScenarioStep]_vars

\* the scenario has run to its end: the 5 bytes went out in one transfer,
\* the 3 bytes came in with one transfer-complete and were consumed at once
ScenarioWitness ==
    /\ written = << 1, 2, 3, 4, 5 >> /\ tx_state = TxIdle /\ tx.empty
    /\ tx.start = 5 /\ ~hw.tx_on /\ pc = "task"
    /\ uarte.rxd_amount = 3 /\ readout = << 9, 8, 7 >> /\ rx.empty
    /\ rx.start = 3 /\ rx_state = "Receiving" /\ uarte.rxd_maxcnt = 5

\* what the two contexts share: the state values and the ring-buffer
\* boundaries (the DMA writes bytes into the memory between them)
bounds_of(rb) == << rb.start, rb.end, rb.empty >>
shared == << rx_state, tx_state, bounds_of(rx), bounds_of(tx) >>

\* one step of the two contexts around PeripheralMutex::with
MutualExclusionStep ==
    \* the interrupt step is entered only outside a critical section: one that
    \* became pending during the section waits for the section to end
    /\ (pc = "task" /\ pc' # "task") => cs = "none" /\ cs' = "none"
    \* no task operation starts or ends while the interrupt step runs
    /\ pc # "task" => cs' = cs
    \* the state values and ring buffers change only in a task operation that
    \* ends its section or in a step of on_interrupt, never in both
    /\ shared' # shared
       => \/ cs = "in" /\ cs' = "none" /\ pc = "task" /\ pc' = "task"
          \/ cs = "none" /\ cs' = "none" /\ pc # "task"
    \* while the section is open nothing else touches them
    /\ (cs = "in" /\ cs' = "in") => shared' = shared

\* C11: the interrupt step never runs while a task operation (poll_fill_buf,
\* consume, poll_write) is inside its critical section and no task operation
\* runs during the interrupt step, so rx_state, tx_state and the ring buffers
\* are touched by one context at a time; an interrupt that becomes pending
\* during a critical section is handled only after the section ends.
MutualExclusion ==
    /\ [](~(cs = "in" /\ pc # "task"))
    /\ [][MutualExclusionStep]_vars

\* a transfer-complete interrupt is pending while the task context is inside
\* its critical section
MutualExclusionWitness ==
    /\ cs = "in" /\ pc = "task"
    /\ uarte.events_endrx /\ IrqLine /\ ~irq_pend
    /\ rx_state = "ReceivingReady"

\* what one call of poll_write does, for every request length
PollWriteStep ==
    \A len \in 1..MaxWrite :
        poll_write(len, MaxBytes) =>
            LET avail == push_buf(tx)
                n == IF avail.len < len THEN avail.len ELSE len
                req == [i \in 1..len |-> Len(written) + i]
            IN  IF avail.len = 0
                THEN /\ tx_waker' /\ wr'.ret = -1
                     /\ tx' = tx /\ tx_state' = tx_state
                     /\ written' = written /\ tx_used' = tx_used
                     /\ irq_pend' = irq_pend
                ELSE /\ wr'.ret = n /\ n >= 1
                     /\ \A i \in 1..n : tx'.buf[avail.ptr + i] = req[i]
                     /\ \A j \in 1..Cap(tx) :
                            (j - 1) \notin Region(Slice(avail.ptr, n))
                            => tx'.buf[j] = tx.buf[j]
                     /\ FilledIdx(tx') =
                            FilledIdx(tx) \cup Region(Slice(avail.ptr, n))
                     /\ tx'.start = tx.start
                     /\ tx_used' = tx_used + n
                     /\ written' = written \o SubSeq(req, 1, n)
                     /\ irq_pend'
                     /\ tx_state' = tx_state /\ tx_waker' = tx_waker

\* C12: poll_write with an empty contiguous writable region registers the TX
\* waiter, returns not-ready, leaves the TX ring buffer and tx_state alone and
\* does not pend the interrupt; otherwise it copies the first
\* n = min(contiguous writable length, request length) bytes of the request,
\* commits exactly n, pends the interrupt and returns n.
PollWriteResult == [][PollWriteStep]_vars

\* a short write: fewer bytes accepted than asked for although more bytes
\* were free past the wrap-around
PollWriteResultWitness ==
    /\ cs = "none" /\ wr.ret >= 1
    /\ wr.ret < wr.req
    /\ wr.free > wr.ret
    /\ tx.end = 0

\* what poll_fill_buf does when no byte is committed to rx
PollFillBufEmptyStep ==
    (poll_fill_buf /\ rx.empty) =>
        /\ view'.len = 0
        /\ rx_waker'
        /\ IF rx_state = "ReceivingReady"
           THEN /\ rx_state' = "Stopping"
                /\ rx_stops' = rx_stops + 1
                /\ hw' = tasks_stoprx(hw)
           ELSE /\ rx_state' = rx_state
                /\ rx_stops' = rx_stops
                /\ hw' = hw
        /\ rx' = rx /\ tx' = tx
        /\ tx_state' = tx_state

\* C13: poll_fill_buf on an empty RX ring buffer returns no data, registers
\* the RX waiter and returns not-ready in every rx_state; it changes rx_state
\* only from ReceivingReady to Stopping, issuing the stop command in exactly
\* that case, and changes neither ring buffer nor tx_state.
PollFillBufEmpty == [][PollFillBufEmptyStep]_vars

\* poll_fill_buf has just returned not-ready in Receiving: waiter registered,
\* no stop requested, the transfer goes on with a byte already received
PollFillBufEmptyWitness ==
    /\ cs = "none" /\ pc = "task"
    /\ rx.empty /\ rx_waker /\ ~rx_woken /\ view.len = 0
    /\ rx_state = "Receiving" /\ hw.rx_on /\ ~hw.rx_stop /\ hw.rx_cnt >= 1
    /\ rx_stops = 0

\* the one place a receive stop comes from
StopRequested == poll_fill_buf /\ rx.empty /\ rx_state = "ReceivingReady"

StopDisciplineStep ==
    \* TASKS_STOPRX is written, and the receiver starts stopping, only there
    /\ rx_stops' > rx_stops => StopRequested
    /\ (hw'.rx_stop /\ ~hw.rx_stop) => StopRequested
    /\ (rx_state' = "Stopping" /\ rx_state # "Stopping") => StopRequested
    \* every other task operation (consume, poll_write, a poll_fill_buf that
    \* returns data or finds another state) leaves the transfer alone
    /\ (cs = "in" /\ cs' = "none" /\ ~StopRequested)
       => /\ hw' = hw /\ rx_state' = rx_state /\ rx_stops' = rx_stops
          /\ uarte' = uarte /\ rx_open' = rx_open
    \* Stopping is left only for Idle, by on_interrupt handling ENDRX
    /\ (rx_state = "Stopping" /\ rx_state' # "Stopping")
       => /\ rx_state' = "Idle"
          /\ pc = "rx" /\ uarte.events_endrx /\ ~uarte'.events_endrx

\* C14: the receive stop command is issued only by poll_fill_buf, only with
\* rx empty and rx_state ReceivingReady, so at most once per armed transfer;
\* consume, poll_write and a poll_fill_buf that returns data do not stop or
\* abort the transfer in flight; Stopping is left only for Idle, on handling
\* the transfer-complete event.
StopDiscipline ==
    /\ [](rx_stops <= 1)
    /\ [][StopDisciplineStep]_vars

\* a stop has been requested and the task context is in a critical section
\* again while the receiver has not confirmed it yet
StopDisciplineWitness ==
    /\ rx_state = "Stopping" /\ rx_stops = 1
    /\ hw.rx_on /\ hw.rx_stop /\ ~uarte.events_endrx
    /\ cs = "in" /\ rx_waker

\* on_interrupt returns: the last iteration of the TX loop ends
irq_return == pc = "tx" /\ pc' = "task"

InterruptFixedPointStep ==
    \* the RX loop, then the TX loop, then the return
    /\ pc = "task" => pc' \in {"task", "rx"}
    /\ pc = "rx" => pc' \in {"rx", "tx"}
    /\ pc = "tx" => pc' \in {"tx", "task"}
    \* no TX transition in the RX loop, no RX transition after it
    /\ pc = "rx" => tx_state' = tx_state /\ bounds_of(tx') = bounds_of(tx)
    /\ pc = "tx" => rx_state' = rx_state /\ bounds_of(rx') = bounds_of(rx)
    \* at the return each side is armed whenever its buffer allows it
    /\ irq_return
       => /\ ~fatal'
          /\ rx_state' = "Idle" => FreeIdx(rx') = {}
          /\ tx_state' = TxIdle => FilledIdx(tx') = {}
    \* a transfer-complete of the step is followed by the re-arming
    /\ (pc = "rx" /\ rx_state # "Idle" /\ rx_state' = "Idle") => pc' = "rx"
    /\ (pc = "tx" /\ tx_state # TxIdle /\ tx_state' = TxIdle) => pc' = "tx"

\* C15: every non-fatal invocation of on_interrupt terminates, runs all its RX
\* transitions before any TX transition, and when it returns rx_state is Idle
\* only if rx has no free space and tx_state is Idle only if tx has no filled
\* bytes.
InterruptFixedPoint ==
    /\ [][InterruptFixedPointStep]_vars
    /\ (pc # "task") ~> (pc = "task")

\* on_interrupt has returned with both sides armed again after a completed
\* transfer of each: the receive buffer still holds committed bytes, the
\* transmit buffer the bytes of its next transfer
InterruptFixedPointWitness ==
    /\ pc = "task" /\ ~irq_pend
    /\ rx_state = "Receiving" /\ ~rx.empty /\ hw.rx_cnt = 0
    /\ tx_state.tag = "Transmitting" /\ hw.tx_cnt = 0 /\ tx.start > 0
    /\ ~uarte.events_endrx /\ ~uarte.events_endtx

\* the event flags are acknowledged when each loop of on_interrupt ends
FlagAckStep ==
    /\ (pc = "rx" /\ pc' = "tx")
       => ~uarte'.events_rxdrdy /\ ~uarte'.events_endrx
    /\ irq_return => ~uarte'.events_endtx

\* C16: in every rx_state and tx_state an event flag that is set when
\* on_interrupt runs, expected or not, is cleared before it returns (all but
\* endrx in Idle, which is fatal): the RX loop ends with rxdrdy and endrx
\* clear, the TX loop ends with endtx clear.
FlagAck == [][FlagAckStep]_vars

\* reception is parked: no transfer armed although rx has free space
RxParked == rx_state = "Idle" /\ FreeIdx(rx) # {}

ConsumeRearmStep ==
    \* consume releases exactly amt bytes, the oldest ones, and pends
    /\ \A amt \in 0..BufLen :
           consume(amt)
           => /\ rx_used' = rx_used - amt
              /\ FilledIdx(rx') = FilledIdx(rx) \ Region(Slice(rx.start, amt))
              /\ rx'.end = rx.end /\ rx'.buf = rx.buf
              /\ readout' = readout \o Bytes(rx, Slice(rx.start, amt))
              /\ rx_state' = rx_state
              /\ tx' = tx /\ tx_state' = tx_state
              /\ irq_pend'
              /\ (rx_state = "Idle" /\ amt > 0) => RxParked'
    \* the interrupt step that finds reception parked arms a transfer on the
    \* free space
    /\ (irq_rx_Idle /\ RxParked)
       => /\ rx_state' = "Receiving"
          /\ hw'.rx_on /\ uarte'.rxd_maxcnt >= 1
          /\ Region(Slice(uarte'.rxd_ptr, uarte'.rxd_maxcnt)) \subseteq FreeIdx(rx)

\* C17: consume(n) releases exactly n bytes of rx, changes neither rx_state
\* nor the TX side and always pends the interrupt; so whenever reception is
\* parked in Idle with free space in task context the interrupt is pended,
\* and the interrupt step it triggers, with no hardware event needed, arms a
\* receive transfer on the freed space.
ConsumeRearm ==
    /\ []((pc = "task" /\ RxParked) => (irq_pend /\ ~uarte.events_endrx))
    /\ [][ConsumeRearmStep]_vars

\* reception was parked on a full buffer, consume has released part of it:
\* the interrupt is pended and no event flag is set
ConsumeRearmWitness ==
    /\ pc = "task" /\ cs = "none"
    /\ RxParked /\ ~rx.empty /\ Len(readout) >= 1
    /\ irq_pend
    /\ ~uarte.events_rxdrdy /\ ~uarte.events_endrx /\ ~uarte.events_endtx

RxdrdyMaskStep ==
    \* enabled exactly in Idle -> Receiving
    /\ (~uarte.inten_rxdrdy /\ uarte'.inten_rxdrdy)
       <=> (rx_state = "Idle" /\ rx_state' = "Receiving")
    \* disabled exactly in Receiving -> ReceivingReady
    /\ (uarte.inten_rxdrdy /\ ~uarte'.inten_rxdrdy)
       <=> (rx_state = "Receiving" /\ rx_state' = "ReceivingReady")
    \* an interrupt step entered for RXDRDY alone takes the transfer out of
    \* Receiving: no second one for the same transfer
    /\ (on_interrupt /\ ~irq_pend /\ ~uarte.events_endrx /\ ~uarte.events_endtx)
       => rx_state = "Receiving" /\ uarte.events_rxdrdy
    /\ (irq_rx_Receiving /\ uarte.events_rxdrdy)
       => rx_state' = "ReceivingReady"

\* C18: at the return of every interrupt step and throughout every task
\* operation the RXDRDY interrupt source is enabled iff rx_state is
\* Receiving; it is enabled exactly in the transition Idle -> Receiving and
\* disabled exactly in Receiving -> ReceivingReady, so one armed transfer
\* takes at most one first-byte interrupt.
RxdrdyMask ==
    /\ [](uarte.inten_rxdrdy <=> rx_state = "Receiving")
    /\ [][RxdrdyMaskStep]_vars

\* the transfer has received further bytes after its first-byte interrupt:
\* RXDRDY is set again, and masked, so the interrupt line stays low
RxdrdyMaskWitness ==
    /\ pc = "task" /\ rx_state = "ReceivingReady"
    /\ uarte.events_rxdrdy /\ ~uarte.inten_rxdrdy
    /\ hw.rx_on /\ hw.rx_cnt >= 2
    /\ ~IrqLine

\* C19: with a peripheral that raises ENDRX once per started receive transfer
\* (with or after its RXDRDY, or after the stop issued for it) and never
\* otherwise, in every interleaving of on_interrupt with poll_fill_buf,
\* consume and poll_write on_interrupt never finds ENDRX set with rx_state
\* Idle (no panic), and ENDRX is never left set in Receiving without the
\* RXDRDY that moves the state machine on: every ENDRX is handled.
FatalUnreachable ==
    /\ [](~fatal)
    /\ [](uarte.events_endrx => rx_state # "Idle")
    /\ []((rx_state = "Receiving" /\ uarte.events_endrx)
          => (uarte.events_rxdrdy /\ uarte.inten_rxdrdy))
    /\ uarte.events_endrx ~> ~uarte.events_endrx

\* poll_fill_buf has issued its stop while the transfer-complete of the same
\* transfer was already pending and not yet handled
FatalUnreachableWitness ==
    /\ rx_state = "Stopping" /\ rx_stops = 1
    /\ uarte.events_endrx /\ uarte.rxd_amount = uarte.rxd_maxcnt
    /\ ~hw.rx_on /\ early = NoEarly
    /\ pc = "task" /\ ~fatal

\* the bytes on_interrupt has released from tx
tx_released == Len(written) - tx_used

\* C20: with every interrupt serviced and every transmit transfer completed
\* by the peripheral, each byte poll_write accepted is handed to the transmit
\* DMA exactly once, in the order accepted, and released from tx afterwards:
\* eventually all of them are; a writer that registered on a full tx is
\* eventually woken.
TransmitProgress ==
    /\ [](IsPrefix(dma_out, written))
    /\ [](tx_released <= Len(dma_out))
    /\ [](tx_state = TxIdle => tx_released = Len(dma_out))
    /\ <>[](dma_out = written /\ tx.empty /\ tx_used = 0)
    /\ (tx_waker /\ ~tx_woken) ~> (tx_woken /\ ~tx_waker)

\* every accepted byte has gone through the transmit DMA, in more than one
\* transfer and across the wrap of tx, and has been released
TransmitProgressWitness ==
    /\ Len(written) = MaxBytes /\ dma_out = written
    /\ tx.empty /\ tx_state = TxIdle /\ tx_used = 0
    /\ tx.start # 0 /\ MaxBytes > BufLen

====
